---- MODULE Spec2Model ----
(***************************************************************************)
(* A model of core/models.py of brasil.io: the DataTable generation        *)
(* lifecycle (activate / deactivate / delete and its signal handlers), the *)
(* cache invalidation hook, the query-set helpers count(), search(),       *)
(* apply_ordering() and composed_query(), make_index_name() and the        *)
(* registry of model classes behind Table.get_model().                     *)
(***************************************************************************)
EXTENDS Integers, Sequences, FiniteSets, TLC

\* ------------------------------------------------------------------ bounds
\* Number of DataTable generations one logical table may get.
MaxGens == 3
\* Cap on the number of recorded cachalot invalidate() calls.
MaxInvalidations == 1
\* Number of rows the dataset table may hold.
MaxRows == 2
\* Number of fields one order-by request may name.
MaxQueryLen == 2

Gens == 1..MaxGens
\* The value Python's None takes for "no generation".
None == 0

VARIABLES
    data_tables,   \* persisted DataTable rows: id -> [active], ids by created_at
    phys,          \* the physical table named db_table_name: absent/present/dropped
    inst,          \* the caller-held DataTable instances: id -> in-memory active
    registry,      \* DYNAMIC_MODEL_REGISTRY: the db_table keys registered
    invalidations, \* number of cachalot invalidate() calls issued
    lastOp,        \* the last call made and how it ended
    pc, tx, observed, activated_once,  \* the transactional view (SpecTx)
    table_rows,    \* rows of the dataset table: [match, other] w.r.t. the filter
    reltuples,     \* pg_class.reltuples of the table: [row, halves]
    qs,            \* a DatasetTableModelQuerySet: [where, cached, _count]
    count_ret,     \* what the last count() call returned, and from where
    model_ordering, model_filtering,   \* Model.extra["ordering"/"filtering"]
    order_by,      \* qs.query.order_by
    ord_call,      \* the last apply_ordering call: [phase, pre, query, added]
    search_fields, \* Model.extra["search"]
    searched,      \* two query sets and the search() call made on each
    index_calls,   \* two make_index_name calls: their arguments and results
    model_types,   \* DYNAMIC_MODEL_REGISTRY: db_table key -> the type registered
    builds,        \* number of model classes built so far
    got,           \* the last get_model call and what it returned
    table_fields   \* the Field rows of the table: field name -> type

lifeVars == <<data_tables, phys, inst, registry, invalidations, lastOp>>
txVars == <<pc, tx, observed, activated_once>>
countVars == <<table_rows, reltuples, qs, count_ret>>
orderVars == <<model_ordering, model_filtering, order_by, ord_call>>
searchVars == <<search_fields, searched>>
indexVars == <<index_calls>>
modelVars == <<model_types, builds, got, table_fields>>
queryVars == <<countVars, orderVars, searchVars, indexVars, modelVars>>
notLife == <<txVars, queryVars>>
notCount == <<lifeVars, txVars, orderVars, searchVars, indexVars, modelVars>>
notOrder == <<lifeVars, txVars, countVars, searchVars, indexVars, modelVars>>
notSearch == <<lifeVars, txVars, countVars, orderVars, indexVars, modelVars>>
notIndex == <<lifeVars, txVars, countVars, orderVars, searchVars, modelVars>>
vars == <<data_tables, phys, inst, registry, invalidations, lastOp,
          pc, tx, observed, activated_once,
          table_rows, reltuples, qs, count_ret,
          model_ordering, model_filtering, order_by, ord_call,
          search_fields, searched, index_calls, model_types, builds, got,
          table_fields>>

\* ------------------------------------------------- the persisted store
\* A store is what one database connection sees: the rows and the physical
\* tables.  [rows |-> id -> [active], phys |-> id -> state].
Store(rows, ph) == [rows |-> rows, phys |-> ph]

Max(S) == CHOOSE x \in S : \A y \in S : y <= x

\* DataTableQuerySet.active: ids of the rows with active = True.
active(s) == {g \in DOMAIN s.rows : s.rows[g].active}

\* DataTableQuerySet.inactive.
inactive(s) == {g \in DOMAIN s.rows : ~s.rows[g].active}

\* DataTableQuerySet.most_recent: order_by("-created_at").first(); ids are
\* handed out in creation order, so the latest created_at is the largest id.
most_recent(S) == IF S = {} THEN None ELSE Max(S)

\* DataTableQuerySet.get_current_active / Table.data_table.
get_current_active(s) == most_recent(active(s))

\* Model.save() of an instance that has its id: writes the instance's active
\* flag with an UPDATE, and INSERTs the row when the UPDATE matched none.
save(s, g, a) ==
    [s EXCEPT !.rows = [x \in DOMAIN @ \cup {g} |->
                           IF x = g THEN [active |-> a] ELSE @[x]]]

\* DataTable.delete_data_table: Model.delete_table(), a missing table
\* (ProgrammingError) is passed over.
delete_data_table(s, g) ==
    [s EXCEPT !.phys[g] = IF @ = "present" THEN "dropped" ELSE @]

\* A deactivation that drops the table whatever drop_table says.
plain_deactivate_drops(s, g, drop_table) == delete_data_table(save(s, g, FALSE), g)

\* The tail of DataTable.deactivate (lines 512-515): the plain deactivation.
plain_deactivate(s, g, drop_table) ==
    LET s1 == save(s, g, FALSE)
    IN  IF drop_table THEN delete_data_table(s1, g) ELSE s1

\* activate without the deactivation of the previous generation (lines 498-500
\* left out).
activate_keeps_previous(s, g, drop_inactive_table) == save(s, g, TRUE)

\* DataTable.activate, run to completion on one connection.
activate(s, g, drop_inactive_table) ==
    LET prev_data_table == get_current_active(s)
        s1 == IF prev_data_table # None
              THEN plain_deactivate(s, prev_data_table, drop_inactive_table)
              ELSE s
    IN  save(s1, g, TRUE)

Min(S) == CHOOSE x \in S : \A y \in S : x <= y

\* A hand-over to the oldest inactive generation instead of the most recent.
hand_over_oldest(s, g, self_active, activate_most_recent) ==
    IF activate_most_recent /\ self_active /\ inactive(s) \ {g} # {}
    THEN Min(inactive(s) \ {g})
    ELSE None

\* The generation deactivate(activate_most_recent=True) hands over to, or None:
\* asked for only when the instance's own flag says active.
hand_over(s, g, self_active, activate_most_recent) ==
    IF activate_most_recent /\ self_active
    THEN most_recent(inactive(s) \ {g})
    ELSE None

\* DataTable.deactivate, run to completion on one connection.
deactivate(s, g, self_active, drop_table, activate_most_recent) ==
    LET mr == hand_over(s, g, self_active, activate_most_recent)
    IN  IF mr # None
        THEN activate(s, mr, drop_table)
        ELSE plain_deactivate(s, g, drop_table)

\* The db_table keys that get_model(cache=False, data_table=...) registers
\* while `before` becomes `after`: one per delete_data_table call.
\* delete_data_table runs on g exactly when drop is asked for.
dropped_by_activate(s, drop) ==
    IF drop /\ get_current_active(s) # None THEN {get_current_active(s)} ELSE {}

dropped_by_deactivate(s, g, self_active, drop, amr) ==
    IF ~drop THEN {}
    ELSE IF hand_over(s, g, self_active, amr) # None
         THEN dropped_by_activate(s, drop)
         ELSE {g}

CurStore == Store(data_tables, phys)

\* ------------------------------------------------ sequential lifecycle
Op(op, g, drop, ok) == [op |-> op, g |-> g, drop |-> drop, ok |-> ok]

\* DataTable.new_data_table + save(), then the import that materialises the
\* generation's physical table: a new inactive row whose table exists.
NewDataTable ==
    /\ Cardinality(DOMAIN inst) < MaxGens
    /\ LET g == Cardinality(DOMAIN inst) + 1
       IN  /\ data_tables' = [x \in DOMAIN data_tables \cup {g} |->
                                IF x = g THEN [active |-> FALSE] ELSE data_tables[x]]
           /\ inst' = [x \in DOMAIN inst \cup {g} |->
                                IF x = g THEN FALSE ELSE inst[x]]
           /\ phys' = [phys EXCEPT ![g] = "present"]
           /\ lastOp' = Op("create", g, FALSE, TRUE)
    /\ UNCHANGED <<registry, invalidations>>
    /\ UNCHANGED notLife

\* g.activate(drop_inactive_table=drop), alone on the database.
Activate(g, drop) ==
    /\ g \in DOMAIN data_tables
    /\ LET s == activate(CurStore, g, drop)
       IN  /\ data_tables' = s.rows
           /\ phys' = s.phys
           /\ registry' = registry \cup dropped_by_activate(CurStore, drop)
    /\ inst' = [inst EXCEPT ![g] = TRUE]
    /\ lastOp' = Op("activate", g, drop, TRUE)
    /\ UNCHANGED invalidations
    /\ UNCHANGED notLife

\* g.deactivate(drop_table=drop, activate_most_recent=amr), alone on the
\* database.  The early return of line 510 leaves the instance untouched.
Deactivate(g, drop, amr) ==
    /\ g \in DOMAIN data_tables
    /\ LET s == deactivate(CurStore, g, inst[g], drop, amr)
       IN  /\ data_tables' = s.rows
           /\ phys' = s.phys
           /\ registry' = registry \cup
                  dropped_by_deactivate(CurStore, g, inst[g], drop, amr)
    /\ inst' = IF hand_over(CurStore, g, inst[g], amr) # None
               THEN inst
               ELSE [inst EXCEPT ![g] = FALSE]
    /\ lastOp' = Op(IF amr THEN "deactivate_amr" ELSE "deactivate", g, drop, TRUE)
    /\ UNCHANGED invalidations
    /\ UNCHANGED notLife

\* A guard that never raises.
guard_never_raises(instance_active) == FALSE

\* pre_delete: prevent_active_data_table_deletion raises on an active instance.
prevent_active_data_table_deletion(instance_active) == instance_active

\* A post_delete handler that leaves the physical table alone.
cleanup_skipped(s, g) == s

\* post_delete: clean_associated_data_base_table.
clean_associated_data_base_table(s, g) == delete_data_table(s, g)

\* g.delete(): the pre_delete guard, the row's DELETE, the post_delete cleanup.
Delete(g) ==
    /\ g \in DOMAIN data_tables
    /\ IF prevent_active_data_table_deletion(inst[g])
       THEN /\ lastOp' = Op("delete", g, FALSE, FALSE)
            /\ UNCHANGED <<data_tables, phys, registry>>
       ELSE /\ data_tables' = [x \in DOMAIN data_tables \ {g} |-> data_tables[x]]
            /\ phys' = clean_associated_data_base_table(CurStore, g).phys
            /\ registry' = registry \cup {g}
            /\ lastOp' = Op("delete", g, FALSE, TRUE)
    /\ UNCHANGED <<inst, invalidations>>
    /\ UNCHANGED notLife

\* The caller fetches the row again: the instance takes the persisted flag.
Refresh(g) ==
    /\ g \in DOMAIN data_tables
    /\ inst[g] # data_tables[g].active
    /\ inst' = [inst EXCEPT ![g] = data_tables[g].active]
    /\ lastOp' = Op("refresh", g, FALSE, TRUE)
    /\ UNCHANGED <<data_tables, phys, registry, invalidations>>
    /\ UNCHANGED notLife

\* Table.invalidate_cache: invalidate(self.db_table); db_table needs an
\* active generation to resolve.
InvalidateCache ==
    /\ get_current_active(CurStore) # None
    /\ invalidations < MaxInvalidations
    /\ invalidations' = invalidations + 1
    /\ lastOp' = Op("invalidate", get_current_active(CurStore), FALSE, TRUE)
    /\ UNCHANGED <<data_tables, phys, inst, registry>>
    /\ UNCHANGED notLife

\* No count() in play.
CountIdle ==
    /\ table_rows = None
    /\ reltuples = None
    /\ qs = None
    /\ count_ret = None

\* No apply_ordering() in play.
OrderIdle ==
    /\ model_ordering = <<>>
    /\ model_filtering = <<>>
    /\ order_by = <<>>
    /\ ord_call = None

\* No search() in play.
SearchIdle ==
    /\ search_fields = <<>>
    /\ searched = None

\* No make_index_name() in play.
IndexIdle == index_calls = None

\* No get_model() call made yet: an empty registry.
ModelIdle ==
    /\ model_types = [x \in {} |-> None]
    /\ builds = 0
    /\ got = None
    /\ table_fields = <<>>

QueryIdle == CountIdle /\ OrderIdle /\ SearchIdle /\ IndexIdle /\ ModelIdle

TxIdle ==
    /\ pc = "off"
    /\ tx = None
    /\ observed = None
    /\ activated_once = FALSE

\* A logical table that has no generation yet.
LifeIdle ==
    /\ data_tables = [x \in {} |-> [active |-> FALSE]]
    /\ phys = [g \in Gens |-> "absent"]
    /\ inst = [x \in {} |-> FALSE]
    /\ registry = {}
    /\ invalidations = 0
    /\ lastOp = Op("init", None, FALSE, TRUE)

Init ==
    /\ QueryIdle
    /\ LifeIdle
    /\ TxIdle

Next ==
    \/ NewDataTable
    \/ \E g \in Gens, drop \in BOOLEAN : Activate(g, drop)
    \/ \E g \in Gens, drop \in BOOLEAN, amr \in BOOLEAN : Deactivate(g, drop, amr)
    \/ \E g \in Gens : Delete(g)
    \/ \E g \in Gens : Refresh(g)
    \/ InvalidateCache

Spec == Init /\ [][Next]_vars

\* ------------------------------------------- activate, statement by statement
\* Two callers, each on its own database connection (READ COMMITTED): the
\* body of `with transaction.atomic()` of activate runs one statement at a
\* time, its writes staged until COMMIT and dropped on an exception.
Procs == {"a", "b"}

InTx == {"deactivate", "drop", "save", "commit"}

NoTx == [self |-> None, drop |-> FALSE, prev |-> None, writes |-> <<>>,
         dropped |-> FALSE, start |-> <<>>, out |-> "none"]

RECURSIVE apply_writes(_, _)
\* The staged UPDATEs of one transaction, applied in the order they were made.
apply_writes(s, w) ==
    IF w = <<>> THEN s
    ELSE apply_writes(save(s, Head(w)[1], Head(w)[2]), Tail(w))

\* The rows a transaction holds the row lock of.
locked_by(p) == {tx[p].writes[i][1] : i \in DOMAIN tx[p].writes}

row_free(p, g) == \A q \in Procs \ {p} : g \notin locked_by(q)

\* Every write staged by an open transaction (row locks keep them apart).
staged_writes ==
    LET a == tx["a"].writes
        b == tx["b"].writes
    IN  a \o b

\* Statements that commit one by one: what a reader would see were the
\* activation not wrapped in a transaction.
autocommit_view(rows, w) == apply_writes(Store(rows, phys), w).rows

\* `with transaction.atomic()`: other connections read the committed rows only.
committed_view(rows, w) == rows

\* An exception that leaves the statements made so far in place.
rollback_keeps_writes(rows, w) == apply_writes(Store(rows, phys), w).rows

\* `with transaction.atomic()` left by an exception: the staged writes are
\* discarded.
rollback(rows, w) == rows

\* Line 497-498: enter the atomic block and read self.table.data_table.
Begin(p, g, drop) ==
    /\ pc[p] = "idle"
    /\ g \in DOMAIN data_tables
    /\ LET prev == get_current_active(CurStore)
       IN  /\ tx' = [tx EXCEPT ![p] = [self |-> g, drop |-> drop, prev |-> prev,
                                       writes |-> <<>>, dropped |-> FALSE,
                                       start |-> data_tables, out |-> "none"]]
           /\ pc' = [pc EXCEPT ![p] = IF prev # None THEN "deactivate" ELSE "save"]
    /\ UNCHANGED <<observed, activated_once>>
    /\ UNCHANGED lifeVars
    /\ UNCHANGED queryVars

\* Lines 500, 512-513: prev_data_table.deactivate() saves active = False; the
\* UPDATE waits for the row lock.
DeactivatePrev(p) ==
    /\ pc[p] = "deactivate"
    /\ row_free(p, tx[p].prev)
    /\ tx' = [tx EXCEPT ![p].writes = Append(@, <<tx[p].prev, FALSE>>)]
    /\ pc' = [pc EXCEPT ![p] = IF tx[p].drop THEN "drop" ELSE "save"]
    /\ UNCHANGED <<observed, activated_once>>
    /\ UNCHANGED lifeVars
    /\ UNCHANGED queryVars

\* Lines 514-515: delete_data_table() of the previous generation.
DropPrev(p) ==
    /\ pc[p] = "drop"
    /\ tx' = [tx EXCEPT ![p].dropped = TRUE]
    /\ registry' = registry \cup {tx[p].prev}
    /\ pc' = [pc EXCEPT ![p] = "save"]
    /\ UNCHANGED <<observed, activated_once>>
    /\ UNCHANGED <<data_tables, phys, inst, invalidations, lastOp>>
    /\ UNCHANGED queryVars

\* Lines 501-502: self.active = True; self.save().
SaveSelf(p) ==
    /\ pc[p] = "save"
    /\ row_free(p, tx[p].self)
    /\ tx' = [tx EXCEPT ![p].writes = Append(@, <<tx[p].self, TRUE>>)]
    /\ pc' = [pc EXCEPT ![p] = "commit"]
    /\ UNCHANGED <<observed, activated_once>>
    /\ UNCHANGED lifeVars
    /\ UNCHANGED queryVars

\* The atomic block is left normally: COMMIT.
Commit(p) ==
    /\ pc[p] = "commit"
    /\ LET s == apply_writes(CurStore, tx[p].writes)
       IN  /\ data_tables' = s.rows
           /\ phys' = IF tx[p].dropped
                      THEN delete_data_table(s, tx[p].prev).phys
                      ELSE phys
    /\ tx' = [tx EXCEPT ![p].writes = <<>>, ![p].out = "committed"]
    /\ pc' = [pc EXCEPT ![p] = "done"]
    /\ activated_once' = TRUE
    /\ UNCHANGED observed
    /\ UNCHANGED <<inst, registry, invalidations, lastOp>>
    /\ UNCHANGED queryVars

\* The statement about to run raises (or the connection is lost, or the
\* database picks this transaction as a deadlock victim): ROLLBACK.
Fail(p) ==
    /\ pc[p] \in InTx
    /\ data_tables' = rollback(data_tables, tx[p].writes)
    /\ tx' = [tx EXCEPT ![p].writes = <<>>, ![p].out = "failed"]
    /\ pc' = [pc EXCEPT ![p] = "done"]
    /\ UNCHANGED <<observed, activated_once>>
    /\ UNCHANGED <<phys, inst, registry, invalidations, lastOp>>
    /\ UNCHANGED queryVars

\* activate has returned (or raised); the caller goes on to its next call.
Return(p) ==
    /\ pc[p] = "done"
    /\ pc' = [pc EXCEPT ![p] = "idle"]
    /\ tx' = [tx EXCEPT ![p] = NoTx]
    /\ UNCHANGED <<observed, activated_once>>
    /\ UNCHANGED lifeVars
    /\ UNCHANGED queryVars

\* Some caller has deactivated the previous generation and not yet committed.
InWindow ==
    \E p \in Procs : pc[p] \in {"drop", "save", "commit"} /\ tx[p].prev # None

\* A reader on another connection resolves Table.data_table's candidates.
Read ==
    /\ observed' = [seen |-> active(Store(committed_view(data_tables, staged_writes),
                                         phys)),
                    window |-> InWindow,
                    once |-> activated_once]
    /\ UNCHANGED <<pc, tx, activated_once>>
    /\ UNCHANGED lifeVars
    /\ UNCHANGED queryVars

NotRead == [seen |-> {}, window |-> FALSE, once |-> FALSE]

\* A table with all its generations imported and at most one of them active.
InitTx ==
    /\ \E A \in {{}} \cup {{g} : g \in Gens} :
          /\ data_tables = [g \in Gens |-> [active |-> g \in A]]
          /\ inst = [g \in Gens |-> g \in A]
          /\ activated_once = (A # {})
    /\ phys = [g \in Gens |-> "present"]
    /\ registry = {}
    /\ invalidations = 0
    /\ lastOp = Op("init", None, FALSE, TRUE)
    /\ pc = [p \in Procs |-> "idle"]
    /\ tx = [p \in Procs |-> NoTx]
    /\ observed = NotRead
    /\ QueryIdle

Steps(p) ==
    \/ \E g \in Gens, drop \in BOOLEAN : Begin(p, g, drop)
    \/ DeactivatePrev(p)
    \/ DropPrev(p)
    \/ SaveSelf(p)
    \/ Commit(p)
    \/ Fail(p)

NextTx == \E p \in Procs : Steps(p)

\* Two callers, one activate call each, concurrently.
SpecTx == InitTx /\ [][NextTx]_vars

NextReader == Steps("a") \/ Return("a") \/ Read

\* One caller making activate calls one after the other, and a reader.
SpecReader == InitTx /\ [][NextReader]_vars

\* g.delete() called on connection p: Django sends pre_delete first, the
\* guard reading the flag of the instance, here fetched as the call is made.
DeleteBegin(p, g) ==
    /\ pc[p] = "idle"
    /\ g \in DOMAIN data_tables
    /\ tx' = [tx EXCEPT ![p] =
                 [NoTx EXCEPT !.self = g, !.start = data_tables,
                              !.out = IF prevent_active_data_table_deletion(
                                             data_tables[g].active)
                                      THEN "failed" ELSE "none"]]
    /\ pc' = [pc EXCEPT ![p] =
                 IF prevent_active_data_table_deletion(data_tables[g].active)
                 THEN "done" ELSE "delete"]
    /\ UNCHANGED <<observed, activated_once>>
    /\ UNCHANGED lifeVars
    /\ UNCHANGED queryVars

\* The DELETE of the row, which waits for the row lock and tests nothing but
\* the id, then post_delete (clean_associated_data_base_table) and COMMIT.
DeleteRecord(p) ==
    /\ pc[p] = "delete"
    /\ row_free(p, tx[p].self)
    /\ data_tables' = [x \in DOMAIN data_tables \ {tx[p].self} |-> data_tables[x]]
    /\ phys' = clean_associated_data_base_table(CurStore, tx[p].self).phys
    /\ registry' = registry \cup {tx[p].self}
    /\ tx' = [tx EXCEPT ![p].out = "committed"]
    /\ pc' = [pc EXCEPT ![p] = "done"]
    /\ UNCHANGED <<observed, activated_once>>
    /\ UNCHANGED <<inst, invalidations, lastOp>>
    /\ UNCHANGED queryVars

NextRace ==
    \/ Steps("a")
    \/ \E g \in Gens : DeleteBegin("b", g)
    \/ DeleteRecord("b")

\* One caller in activate, another in delete, concurrently.
SpecRace == InitTx /\ [][NextRace]_vars

\* ------------------------------------------ DatasetTableModelQuerySet.count
NoRet == [ret |-> 0, via |-> "none"]

total_rows == table_rows.match + table_rows.other

\* super().count(): SELECT COUNT(*) with the query's WHERE clause.
exact_count(where) == IF where THEN table_rows.match ELSE total_rows

\* Python's int() of a float, the float given in halves: truncation toward 0.
py_int(halves) == IF halves >= 0 THEN halves \div 2 ELSE -((-halves) \div 2)

\* Lines 137-147: the value count() computes when nothing is cached.
\* fetchone() is None when pg_class has no row of that name: None[0] raises,
\* and the except branch counts exactly.
compute_count(where) ==
    IF ~where
    THEN IF reltuples.row
         THEN [ret |-> py_int(reltuples.halves), via |-> "stats"]
         ELSE [ret |-> exact_count(where), via |-> "exact"]
    ELSE [ret |-> exact_count(where), via |-> "exact"]

\* Model.objects.all() / .filter(...): a new query set, nothing cached.
NewQuerySet(where) ==
    /\ qs' = [where |-> where, cached |-> FALSE, _count |-> 0]
    /\ count_ret' = NoRet
    /\ UNCHANGED <<table_rows, reltuples>>
    /\ UNCHANGED notCount

\* A row is inserted; `m` says whether it matches the filter.
InsertRow(m) ==
    /\ total_rows < MaxRows
    /\ table_rows' = IF m THEN [table_rows EXCEPT !.match = @ + 1]
                          ELSE [table_rows EXCEPT !.other = @ + 1]
    /\ count_ret' = NoRet
    /\ UNCHANGED <<reltuples, qs>>
    /\ UNCHANGED notCount

DeleteRow(m) ==
    /\ IF m THEN table_rows.match > 0 ELSE table_rows.other > 0
    /\ table_rows' = IF m THEN [table_rows EXCEPT !.match = @ - 1]
                          ELSE [table_rows EXCEPT !.other = @ - 1]
    /\ count_ret' = NoRet
    /\ UNCHANGED <<reltuples, qs>>
    /\ UNCHANGED notCount

\* DatasetTableModelMixin.analyse_table: VACUUM ANALYSE sets reltuples to the
\* row count.
AnalyseTable ==
    /\ reltuples' = [row |-> TRUE, halves |-> 2 * total_rows]
    /\ count_ret' = NoRet
    /\ UNCHANGED <<table_rows, qs>>
    /\ UNCHANGED notCount

\* The planner's own estimate, scaled from the pages it sampled.
PlannerEstimate(h) ==
    /\ reltuples.row
    /\ reltuples' = [row |-> TRUE, halves |-> h]
    /\ count_ret' = NoRet
    /\ UNCHANGED <<table_rows, qs>>
    /\ UNCHANGED notCount

\* A cache test on the truth of the value: a cached 0 counts as no value.
count_is_truthy(q) == q.cached /\ q._count # 0

\* Line 133: getattr(self, "_count", None) is not None.
count_is_cached(q) == q.cached

\* qs.count()
Count ==
    /\ IF count_is_cached(qs)
       THEN /\ count_ret' = [ret |-> qs._count, via |-> "cache"]
            /\ UNCHANGED qs
       ELSE /\ count_ret' = compute_count(qs.where)
            /\ qs' = [qs EXCEPT !.cached = TRUE,
                                !._count = compute_count(qs.where).ret]
    /\ UNCHANGED <<table_rows, reltuples>>
    /\ UNCHANGED notCount

\* A table that was never analysed (reltuples -1, or 0 on older servers), or
\* one pg_class has no row for under that name.
InitCount ==
    /\ table_rows = [match |-> 0, other |-> 0]
    /\ reltuples \in {[row |-> FALSE, halves |-> 0],
                      [row |-> TRUE, halves |-> -2],
                      [row |-> TRUE, halves |-> 0]}
    /\ qs = [where |-> FALSE, cached |-> FALSE, _count |-> 0]
    /\ count_ret = NoRet
    /\ OrderIdle /\ SearchIdle /\ IndexIdle /\ ModelIdle
    /\ LifeIdle /\ TxIdle

NextCount ==
    \/ \E w \in BOOLEAN : NewQuerySet(w)
    \/ \E m \in BOOLEAN : InsertRow(m)
    \/ \E m \in BOOLEAN : DeleteRow(m)
    \/ AnalyseTable
    \/ \E h \in 0..(2 * MaxRows) : PlannerEstimate(h)
    \/ Count

SpecCount == InitCount /\ [][NextCount]_vars

\* ---------------------------------- DatasetTableModelQuerySet.apply_ordering
\* Field names are strings, here tuples of one-character strings.
Dash == "-"

\* str.replace("-", "")
replace_dash(f) == SelectSeq(f, LAMBDA c : c # Dash)

RECURSIVE lstrip(_)
lstrip(f) == IF f # <<>> /\ Head(f) = " " THEN lstrip(Tail(f)) ELSE f

RECURSIVE rstrip(_)
rstrip(f) ==
    IF f # <<>> /\ f[Len(f)] = " " THEN rstrip(SubSeq(f, 1, Len(f) - 1)) ELSE f

\* str.strip()
strip(f) == rstrip(lstrip(f))

lower_char(c) == IF c = "A" THEN "a" ELSE IF c = "B" THEN "b" ELSE c

\* str.lower()
lower(f) == [i \in DOMAIN f |-> lower_char(f[i])]

Range(q) == {q[i] : i \in DOMAIN q}

\* Line 100: set(model_ordering + model_filtering)
allowed_fields(ordering, filtering) == Range(ordering \o filtering)

\* Line 101
clean_allowed(ordering, filtering) ==
    {lower(strip(replace_dash(f))) : f \in allowed_fields(ordering, filtering)}

\* Line 102
ordering_query(query, ordering, filtering) ==
    SelectSeq(query, LAMBDA f : replace_dash(f) \in clean_allowed(ordering, filtering))

\* An ordering call that overwrites, as qs.order_by does.
order_by_overwrites(cur, fields) == fields

\* qs.query.add_ordering(*fields): appends to the query's order_by.
add_ordering(cur, fields) == cur \o fields

\* Lines 105-108: what apply_ordering hands to add_ordering.
ordering_to_add(query, ordering, filtering) ==
    IF ordering_query(query, ordering, filtering) # <<>>
    THEN ordering_query(query, ordering, filtering)
    ELSE ordering

SearchRank == <<"-", "r", "a", "n", "k">>

NoCall == [phase |-> "new", pre |-> <<>>, query |-> <<>>, added |-> <<>>]

\* A new query set of the model: no ordering attached.
OrderFresh ==
    /\ ord_call.phase = "ordered"
    /\ order_by' = <<>>
    /\ ord_call' = NoCall
    /\ UNCHANGED <<model_ordering, model_filtering>>
    /\ UNCHANGED notOrder

\* Line 85 of search(): qs.query.add_ordering("-search_rank").
SearchOrdering ==
    /\ ord_call.phase = "new"
    /\ order_by = <<>>
    /\ order_by' = add_ordering(order_by, <<SearchRank>>)
    /\ UNCHANGED <<model_ordering, model_filtering, ord_call>>
    /\ UNCHANGED notOrder

\* qs.apply_ordering(query)
ApplyOrdering(query) ==
    /\ ord_call.phase = "new"
    /\ order_by' = add_ordering(order_by,
                       ordering_to_add(query, model_ordering, model_filtering))
    /\ ord_call' = [phase |-> "ordered", pre |-> order_by, query |-> query,
                    added |-> ordering_query(query, model_ordering, model_filtering)]
    /\ UNCHANGED <<model_ordering, model_filtering>>
    /\ UNCHANGED notOrder

\* The field names a request may carry.
RequestFields ==
    { <<"a">>, <<"-", "a">>, <<"b">>, <<"-", "b">>, <<"a", "b">>,
      <<"a", "-", "b">>, <<"-", "-", "a">>, <<"c">>, <<"A">> }

RECURSIVE SeqsUpTo(_, _)
SeqsUpTo(S, n) ==
    IF n = 0 THEN {<<>>}
    ELSE LET shorter == SeqsUpTo(S, n - 1)
         IN  shorter \cup {Append(q, x) : q \in shorter, x \in S}

Requests == SeqsUpTo(RequestFields, MaxQueryLen)

\* Declared Table.ordering and Table.filtering lists.
DeclaredOrdering ==
    { <<>>, << <<"a">> >>, << <<"-", "a">> >>, << <<"-", "a">>, <<"b">> >>,
      << <<"A", "b">> >>, << <<" ", "b">> >> }

DeclaredFiltering ==
    { <<>>, << <<"b">> >>, << <<"a", "b">> >>, << <<"a">>, <<"c">> >> }

InitOrder ==
    /\ model_ordering \in DeclaredOrdering
    /\ model_filtering \in DeclaredFiltering
    /\ order_by = <<>>
    /\ ord_call = NoCall
    /\ CountIdle /\ SearchIdle /\ IndexIdle /\ ModelIdle
    /\ LifeIdle /\ TxIdle

NextOrder ==
    \/ OrderFresh
    \/ SearchOrdering
    \/ \E query \in Requests : ApplyOrdering(query)

SpecOrder == InitOrder /\ [][NextOrder]_vars

\* ------------------------------------- DatasetTableModelQuerySet.search
\* Number of characters one search string may have.
MaxSearchLen == 3

RECURSIVE word_len(_)
\* Length of the run of non-whitespace characters s starts with.
word_len(s) ==
    IF s = <<>> \/ Head(s) = " " THEN 0 ELSE 1 + word_len(Tail(s))

RECURSIVE split(_)
\* str.split(): the words between runs of whitespace, none of them empty.
split(s) ==
    IF s = <<>> THEN <<>>
    ELSE IF Head(s) = " " THEN split(Tail(s))
    ELSE <<SubSeq(s, 1, word_len(s))>> \o split(SubSeq(s, word_len(s) + 1, Len(s)))

\* Every order in which the elements of S may be visited once each.
Perms(S) ==
    {f \in [1..Cardinality(S) -> S] : \A i, j \in DOMAIN f : f[i] = f[j] => i = j}

\* Line 76, `for word in set(words)`: the duplicates collapse and the set is
\* visited in an order the caller has no say in.
iteration_orders(words) == Perms(Range(words))

\* `query` before the loop has assigned it: Python's None.
NoQuery == <<>>

RECURSIVE build_query(_, _)
\* Lines 75-81: the loop body, SearchQuery(word) AND-ed onto `query`; a
\* tsquery is the sequence of its conjuncts.
build_query(query, order) ==
    IF order = <<>> THEN query
    ELSE build_query(Append(query, Head(order)), Tail(order))

\* A query set: its annotations, its WHERE predicates and its ordering.
NewQs == [annotations |-> {}, where |-> <<>>, order_by |-> <<>>]

\* Lines 68-86, `order` being the order the loop visits the terms in.
search(q, search_query, fields, order) ==
    IF search_query # <<>> /\ fields # <<>>
    THEN LET query == build_query(NoQuery, order)
         IN  [annotations |-> q.annotations \cup
                                {[name |-> "search_rank", query |-> query]},
              where |-> Append(q.where, [lookup |-> "search_data", value |-> query]),
              order_by |-> add_ordering(q.order_by, <<SearchRank>>)]
    ELSE q

\* Lines 88-93: self.filter(**processor.filters).
apply_filters(q, filtering) ==
    [q EXCEPT !.where = Append(@, [lookup |-> "filters", value |-> filtering])]

\* Lines 95-110 on a query-set value.
apply_ordering(q, query) ==
    [q EXCEPT !.order_by =
        add_ordering(@, ordering_to_add(query, model_ordering, model_filtering))]

\* Lines 124-130.
composed_query(q, filter_query, search_query, order, order_query) ==
    LET q1 == IF search_query # <<>>
              THEN search(q, search_query, search_fields, order) ELSE q
        q2 == IF filter_query # <<>> THEN apply_filters(q1, filter_query) ELSE q1
    IN  apply_ordering(q2, order_query)

Slots == 1..2

NotSearched == [call |-> "none", search_query |-> <<>>, qs |-> NewQs]

\* qs.search(search_query) on the i-th query set.
Search(i, search_query, order) ==
    /\ searched[i].call = "none"
    /\ \A j \in Slots : j < i => searched[j].call # "none"
    /\ order \in iteration_orders(split(search_query))
    /\ searched' = [searched EXCEPT ![i] =
          [call |-> "search", search_query |-> search_query,
           qs |-> search(searched[i].qs, search_query, search_fields, order)]]
    /\ UNCHANGED search_fields
    /\ UNCHANGED notSearch

\* qs.composed_query(filter_query, search_query) on the i-th query set.
ComposedQuery(i, filter_query, search_query, order) ==
    /\ searched[i].call = "none"
    /\ \A j \in Slots : j < i => searched[j].call # "none"
    /\ order \in iteration_orders(split(search_query))
    /\ searched' = [searched EXCEPT ![i] =
          [call |-> "composed", search_query |-> search_query,
           qs |-> composed_query(searched[i].qs, filter_query, search_query,
                                 order, <<>>)]]
    /\ UNCHANGED search_fields
    /\ UNCHANGED notSearch

SearchChars == {"a", "b", " "}

\* The search strings a request may carry.
SearchQueries == UNION {[1..n -> SearchChars] : n \in 0..MaxSearchLen}

\* The filter maps a request may carry: none, or one key.
FilterQueries == {<<>>, <<"a">>}

InitSearch ==
    /\ search_fields \in {<<>>, << <<"a">> >>}
    /\ searched = [i \in Slots |-> NotSearched]
    /\ model_ordering \in {<<>>, << <<"a">> >>}
    /\ model_filtering = <<>>
    /\ order_by = <<>>
    /\ ord_call = None
    /\ CountIdle /\ IndexIdle /\ ModelIdle
    /\ LifeIdle /\ TxIdle

NextSearch ==
    \/ \E i \in Slots, q \in SearchQueries :
          \E order \in iteration_orders(split(q)) : Search(i, q, order)
    \/ \E i \in Slots, f \in FilterQueries, q \in SearchQueries :
          \E order \in iteration_orders(split(q)) : ComposedQuery(i, f, q, order)

SpecSearch == InitSearch /\ [][NextSearch]_vars

\* ------------------------------------------------------ make_index_name
\* Number of field names one index may cover.
MaxFields == 2
\* Line 29: the sanitised table name is cut to 12 characters.
TablePrefixLen == 12

\* ord(c) of the characters field names are made of.
ord(c) ==
    CASE c = " " -> 32 [] c = "," -> 44 [] c = "-" -> 45 [] c = "_" -> 95
      [] c = "a" -> 97 [] c = "b" -> 98 [] OTHER -> 127

RECURSIVE str_lt(_, _)
\* x < y on Python strings: lexicographic on the code points.
str_lt(x, y) ==
    IF y = <<>> THEN FALSE
    ELSE IF x = <<>> THEN TRUE
    ELSE IF Head(x) # Head(y) THEN ord(Head(x)) < ord(Head(y))
    ELSE str_lt(Tail(x), Tail(y))

RECURSIVE insert_sorted(_, _)
insert_sorted(x, l) ==
    IF l = <<>> THEN <<x>>
    ELSE IF str_lt(Head(l), x) \/ Head(l) = x
         THEN <<Head(l)>> \o insert_sorted(x, Tail(l))
         ELSE <<x>> \o l

\* The field list as it was handed in.
unsorted(fields) == fields

RECURSIVE sorted(_)
\* sorted(fields)
sorted(fields) ==
    IF fields = <<>> THEN <<>> ELSE insert_sorted(Head(fields), sorted(Tail(fields)))

RECURSIVE join(_, _)
\* sep.join(l)
join(sep, l) ==
    IF l = <<>> THEN <<>>
    ELSE IF Len(l) = 1 THEN Head(l)
    ELSE Head(l) \o sep \o join(sep, Tail(l))

starts_with(s, old) == Len(s) >= Len(old) /\ SubSeq(s, 1, Len(old)) = old

RECURSIVE remove_all(_, _)
\* s.replace(old, ""), old not empty: left to right, without overlap.
remove_all(s, old) ==
    IF s = <<>> THEN <<>>
    ELSE IF starts_with(s, old) THEN remove_all(SubSeq(s, Len(old) + 1, Len(s)), old)
    ELSE <<Head(s)>> \o remove_all(Tail(s), old)

\* s[:n]
first_chars(s, n) == SubSeq(s, 1, IF Len(s) < n THEN Len(s) ELSE n)

\* A hashed string that leaves the table name out.
hashed_string_without_table(tablename, index_type, fields) ==
    index_type \o <<" ">> \o join(<<",", " ">>, sorted(fields))

\* Line 28, the string handed to md5:
\* f'{tablename} {index_type} {", ".join(sorted(fields))}'
hashed_string(tablename, index_type, fields) ==
    tablename \o <<" ">> \o index_type \o <<" ">> \o join(<<",", " ">>, sorted(fields))

\* hashlib.md5(...).hexdigest()[-12:], taken as collision-free: the digest
\* is told apart by the string it was computed from.
idx_hash(text) == [md5 |-> text]

\* Line 29: tablename.replace("data_", "").replace("-", "")[:12]
short_tablename(tablename) ==
    first_chars(replace_dash(remove_all(tablename, <<"d", "a", "t", "a", "_">>)), TablePrefixLen)

\* Lines 27-30.  The name is "idx_<table>_<k>" followed by the 12 hex digits
\* of the digest; the digest has a fixed width, so the two parts are kept
\* apart.
make_index_name(tablename, index_type, fields) ==
    [text |-> <<"i", "d", "x", "_">> \o short_tablename(tablename)
                 \o <<"_">> \o <<index_type[1]>>,
     suffix |-> idx_hash(hashed_string(tablename, index_type, fields))]

NotCalled == [called |-> FALSE, tablename |-> <<>>, index_type |-> <<>>,
              fields |-> <<>>, name |-> <<>>]

\* The i-th call of make_index_name.
MakeIndexName(i, tablename, index_type, fields) ==
    /\ ~index_calls[i].called
    /\ \A j \in Slots : j < i => index_calls[j].called
    /\ index_calls' = [index_calls EXCEPT ![i] =
          [called |-> TRUE, tablename |-> tablename, index_type |-> index_type,
           fields |-> fields,
           name |-> make_index_name(tablename, index_type, fields)]]
    /\ UNCHANGED notIndex

\* A table name with a dash, and two db_table names as
\* DataTable.new_data_table makes them that agree on the 12 characters kept of
\* them.
TableNames ==
    { <<"d", "a", "t", "a", "_", "t", "-", "x">>,
      <<"d", "a", "t", "a", "_", "d", "s", "_", "t", "a", "b", "l", "e", "n", "a", "m", "e", "a", "a">>,
      <<"d", "a", "t", "a", "_", "d", "s", "_", "t", "a", "b", "l", "e", "n", "a", "m", "e", "a", "b">> }

\* The index types get_model asks for (lines 333 and 339).
IndexTypes == { <<"o", "r", "d", "e", "r">>, <<"f", "i", "l", "t", "e", "r">> }

\* Field names: two column names, the empty name and a name with the
\* separator of line 28 in it.
IndexFieldNames == { <<"a">>, <<"b">>, <<>>, <<"a", ",", " ", "b">> }

FieldLists == SeqsUpTo(IndexFieldNames, MaxFields)

InitIndex ==
    /\ index_calls = [i \in Slots |-> NotCalled]
    /\ CountIdle /\ OrderIdle /\ SearchIdle /\ ModelIdle
    /\ LifeIdle /\ TxIdle

NextIndex ==
    \E i \in Slots, t \in TableNames, k \in IndexTypes, fields \in FieldLists :
        MakeIndexName(i, t, k, fields)

SpecIndex == InitIndex /\ [][NextIndex]_vars

\* ------------------------------------------------------- Table.get_model
\* Cap on the number of model classes built.
MaxBuilds == 2

\* A model class: the db_table its Meta binds it to, and which of the
\* classes built so far it is (two builds never give the same object).
ModelClass(db_table, serial) == [db_table |-> db_table, serial |-> serial]

NoModel == ModelClass(None, 0)

\* A cache test that does not look at the `cache` argument.
use_cache_always(cache, cache_key, reg) == cache_key \in DOMAIN reg

\* Line 319: cache and cache_key in DYNAMIC_MODEL_REGISTRY.
use_cache(cache, cache_key, reg) == cache /\ cache_key \in DOMAIN reg

\* Line 315: data_table or self.data_table.
requested(s, data_table) ==
    IF data_table # None THEN data_table ELSE get_current_active(s)

\* The type names dynamic_models.FIELD_TYPES has a field class for.
FIELD_TYPES == {"string", "integer"}

\* A lookup that falls back to a default class, as Table.schema does with
\* .get(t, rows_fields.Field): no type makes it raise.
field_class_defaults(fields) == FALSE

\* Lines 325 and 423-427: field.field_class of every field of the table, the
\* subscript FIELD_TYPES[self.type] raising on a type that is not a key.
field_class_raises(fields) == \E n \in DOMAIN fields : fields[n] \notin FIELD_TYPES

\* Lines 311-374: the registry and the number of classes built after the
\* call, the class returned and whether the call returned at all.  The key
\* is (self.id, db_table) of the one table modelled, a generation standing
\* for its db_table_name; `fields` are the types of the table's fields.
get_model(reg, built, s, fields, cache, data_table) ==
    LET cache_key == requested(s, data_table)
        Model == ModelClass(cache_key, built + 1)
    IN  IF use_cache(cache, cache_key, reg)
        THEN [registry |-> reg, builds |-> built, Model |-> reg[cache_key],
              ok |-> TRUE]
        ELSE IF field_class_raises(fields)
        THEN [registry |-> reg, builds |-> built, Model |-> NoModel, ok |-> FALSE]
        ELSE [registry |-> [k \in DOMAIN reg \cup {cache_key} |->
                               IF k = cache_key THEN Model ELSE reg[k]],
              builds |-> built + 1,
              Model |-> Model,
              ok |-> TRUE]

NoGot == [cache |-> TRUE, data_table |-> None, Model |-> NoModel]

\* table.get_model(cache=cache, data_table=data_table); with no generation
\* given and none active, line 316 raises on None.db_table_name.
GetModel(cache, data_table) ==
    /\ data_table \in DOMAIN data_tables \cup {None}
    /\ IF requested(CurStore, data_table) = None
       THEN /\ lastOp' = Op("get_model", None, FALSE, FALSE)
            /\ got' = [cache |-> cache, data_table |-> data_table, Model |-> NoModel]
            /\ UNCHANGED <<model_types, builds, registry>>
       ELSE LET r == get_model(model_types, builds, CurStore, table_fields,
                               cache, data_table)
            IN  /\ r.builds <= MaxBuilds
                /\ model_types' = r.registry
                /\ builds' = r.builds
                /\ registry' = DOMAIN r.registry
                /\ got' = [cache |-> cache, data_table |-> data_table,
                           Model |-> r.Model]
                /\ lastOp' = Op("get_model", requested(CurStore, data_table),
                               FALSE, r.ok)
    /\ UNCHANGED table_fields
    /\ UNCHANGED <<data_tables, phys, inst, invalidations>>
    /\ UNCHANGED <<txVars, countVars, orderVars, searchVars, indexVars>>

\* The names of the table's fields.
FieldNames == {"a", "b"}

\* The types a Field row may hold, one with a field class and one without:
\* `type` is a CharField whose choices are checked by forms only.
FieldTypes == {"string", "geometry"}

\* field.type = type; field.save() on one Field row of the table.
SaveField(name, type) ==
    /\ table_fields[name] # type
    /\ table_fields' = [table_fields EXCEPT ![name] = type]
    /\ lastOp' = Op("save_field", None, FALSE, TRUE)
    /\ UNCHANGED <<model_types, builds, got>>
    /\ UNCHANGED <<data_tables, phys, inst, registry, invalidations>>
    /\ UNCHANGED <<txVars, countVars, orderVars, searchVars, indexVars>>

InitModel ==
    /\ LifeIdle
    /\ model_types = [x \in {} |-> NoModel]
    /\ builds = 0
    /\ got = NoGot
    /\ table_fields \in [FieldNames -> FieldTypes]
    /\ CountIdle /\ OrderIdle /\ SearchIdle /\ IndexIdle
    /\ TxIdle

NextModel ==
    \/ NewDataTable
    \/ \E g \in Gens : Activate(g, FALSE)
    \/ \E cache \in BOOLEAN, data_table \in Gens \cup {None} :
          GetModel(cache, data_table)
    \/ \E name \in FieldNames, type \in FieldTypes : SaveField(name, type)

\* One table: generations are created and activated, fields retyped, and
\* get_model called.
SpecModel == InitModel /\ [][NextModel]_vars

\* ------------------------------------------------------------ properties
ActiveNow == active(CurStore)

\* C1: after every activate(g, drop) call, run alone on a table with at most
\* one active generation, exactly one generation is active and it is g.
C1_OneActiveAfterActivate ==
    lastOp.op = "activate" => ActiveNow = {lastOp.g}

\* activate(g) has just swapped the active generation: g is the only active
\* one and the generation it replaced is still held as active by its caller.
C1_Witness ==
    /\ lastOp.op = "activate"
    /\ ActiveNow = {lastOp.g}
    /\ \E h \in DOMAIN data_tables \ {lastOp.g} : inst[h]

\* C2: delete() of a DataTable whose active flag is true fails, and leaves
\* the row, its active flag and its physical table as they were.
C2_ActiveDeleteRejected ==
    [][\A g \in DOMAIN data_tables :
          (inst[g] /\ lastOp'.op = "delete" /\ lastOp'.g = g)
              => /\ ~lastOp'.ok
                 /\ data_tables' = data_tables
                 /\ phys' = phys
                 /\ inst' = inst]_vars

\* A delete of an active generation has just been refused; the row is there,
\* active, and its table exists.
C2_Witness ==
    /\ lastOp.op = "delete" /\ ~lastOp.ok
    /\ lastOp.g \in DOMAIN data_tables
    /\ data_tables[lastOp.g].active /\ inst[lastOp.g]
    /\ phys[lastOp.g] = "present"

\* C5: no generation recorded as active has had its physical table dropped.
C5_ActiveNeverDropped ==
    \A g \in DOMAIN data_tables : data_tables[g].active => phys[g] # "dropped"

\* C7: every activate or deactivate that changes the active physical table
\* name issues an invalidate() call as part of the operation.
C7_InvalidateOnSwitch ==
    [][(/\ lastOp'.op \in {"activate", "deactivate", "deactivate_amr"}
        /\ get_current_active(CurStore)' # get_current_active(CurStore))
          => invalidations' > invalidations]_vars

\* C3: once two concurrent activate calls on two different generations, both
\* begun on a table with one active generation, have committed, the table has
\* exactly one active generation.
C3_ConcurrentActivateOneActive ==
    (/\ \A p \in Procs : pc[p] = "done" /\ tx[p].out = "committed"
                           /\ Cardinality(active(Store(tx[p].start, phys))) = 1
     /\ tx["a"].self # tx["b"].self)
        => Cardinality(ActiveNow) = 1

\* C4: a reader never observes two active generations, and never observes
\* none once an activation has succeeded, also while an activation is midway.
C4_ReaderSeesOneActive ==
    /\ Cardinality(observed.seen) <= 1
    /\ observed.once => observed.seen # {}

\* The reader looked while the writer had deactivated the previous generation
\* and not yet committed, and saw the previous generation still active.
C4_Witness ==
    /\ observed.window /\ observed.once
    /\ pc["a"] \in {"drop", "save", "commit"}
    /\ observed.seen = {tx["a"].prev}
    /\ tx["a"].self # tx["a"].prev

\* C6: an activate that fails at any step leaves the persisted active flags
\* of all generations as they were before the call.
C6_FailedActivateRollsBack ==
    \A p \in Procs :
        (pc[p] = "done" /\ tx[p].out = "failed") => data_tables = tx[p].start

\* The activation failed after it had deactivated the previous generation and
\* asked for its table to be dropped; the generation is active as before.
C6_Witness ==
    /\ pc["a"] = "done" /\ tx["a"].out = "failed"
    /\ tx["a"].prev # None /\ tx["a"].prev # tx["a"].self
    /\ tx["a"].dropped /\ phys[tx["a"].prev] = "present"
    /\ data_tables[tx["a"].prev].active

\* C8: an unfiltered count() never returns -1, and returns the exact row count
\* whenever the planner statistics hold -1 or no row for the table.
C8_CountFallsBackToExact ==
    (count_ret.via # "none" /\ ~qs.where) =>
        /\ count_ret.ret # -1
        /\ (count_ret.via # "cache"
              /\ (~reltuples.row \/ py_int(reltuples.halves) = -1))
           => count_ret.ret = total_rows

\* The field a sort key names: the key without its descending prefix.
field_of(key) == IF key # <<>> /\ Head(key) = Dash THEN Tail(key) ELSE key

Whitelist == {field_of(f) : f \in allowed_fields(model_ordering, model_filtering)}

accepted(f) ==
    replace_dash(f) \in
        {lower(strip(replace_dash(d))) : d \in Range(model_ordering) \cup Range(model_filtering)}

\* C9: after apply_ordering the ordering is the pre-existing ordering, then
\* the accepted requested fields in request order if there is one, and the
\* declared default ordering otherwise.
C9_OrderingAppends ==
    ord_call.phase = "ordered" =>
        LET acc == SelectSeq(ord_call.query, accepted)
        IN  /\ Len(order_by) >= Len(ord_call.pre)
            /\ SubSeq(order_by, 1, Len(ord_call.pre)) = ord_call.pre
            /\ SubSeq(order_by, Len(ord_call.pre) + 1, Len(order_by))
                  = IF acc # <<>> THEN acc ELSE model_ordering

\* The search rank was attached first; a request with one accepted and one
\* refused field then appended the accepted one after it.
C9_Witness ==
    /\ ord_call.phase = "ordered"
    /\ ord_call.pre = <<SearchRank>>
    /\ Len(ord_call.query) = 2 /\ Len(ord_call.added) = 1
    /\ order_by = <<SearchRank>> \o ord_call.added

\* C10: every sort key apply_ordering takes from the request names, once its
\* descending prefix is removed, a field of the declared ordering or
\* filtering.
C10_OnlyWhitelistedKeys ==
    \A i \in DOMAIN ord_call.added : field_of(ord_call.added[i]) \in Whitelist

\* How many times each term stands in the conjunction of a tsquery: AND is
\* commutative and associative, so two tsqueries are the same predicate when
\* they have the same conjuncts, each as often.
conjuncts(t) == [w \in Range(t) |-> Cardinality({i \in DOMAIN t : t[i] = w})]

same_predicates(x, y) ==
    /\ Len(x.where) = Len(y.where)
    /\ \A k \in DOMAIN x.where :
          /\ x.where[k].lookup = y.where[k].lookup
          /\ conjuncts(x.where[k].value) = conjuncts(y.where[k].value)

same_rank(x, y) ==
    /\ {conjuncts(a.query) : a \in x.annotations}
          = {conjuncts(a.query) : a \in y.annotations}
    /\ x.order_by = y.order_by

terms(search_query) == Range(split(search_query))

\* C11: two search() calls whose strings split into the same set of terms
\* filter on the same full-text predicate and rank by the same query,
\* whatever the order or the repetition of the terms in the strings.
C11_SearchTermSet ==
    (/\ searched[1].call = "search"
     /\ searched[2].call = "search"
     /\ terms(searched[1].search_query) = terms(searched[2].search_query))
    => /\ same_predicates(searched[1].qs, searched[2].qs)
       /\ same_rank(searched[1].qs, searched[2].qs)

has_search(q) ==
    \/ q.annotations # {}
    \/ \E k \in DOMAIN q.where : q.where[k].lookup = "search_data"
    \/ SearchRank \in Range(q.order_by)

\* C18: a search string that holds no term once split (empty, or whitespace
\* only) leaves the query set without search predicate, rank annotation and
\* rank ordering, through search() and through composed_query().
C18_NoTermNoSearch ==
    \A i \in Slots :
        (searched[i].call # "none" /\ terms(searched[i].search_query) = {})
        => ~has_search(searched[i].qs)

\* Two sequences that hold the same elements, each as often.
is_permutation(x, y) == conjuncts(x) = conjuncts(y)

\* C12: make_index_name gives the same name for every permutation of one
\* field list, table name and index type being the same.
C12_FieldOrderIrrelevant ==
    (/\ index_calls[1].called /\ index_calls[2].called
     /\ index_calls[1].tablename = index_calls[2].tablename
     /\ index_calls[1].index_type = index_calls[2].index_type
     /\ is_permutation(index_calls[1].fields, index_calls[2].fields))
    => index_calls[1].name = index_calls[2].name

\* Two calls for the same table and type, the second with the two different
\* field names of the first in the other order.
C12_Witness ==
    /\ index_calls[1].called /\ index_calls[2].called
    /\ index_calls[1].tablename = index_calls[2].tablename
    /\ index_calls[1].index_type = index_calls[2].index_type
    /\ Len(index_calls[1].fields) = 2
    /\ index_calls[1].fields[1] # index_calls[1].fields[2]
    /\ index_calls[2].fields
          = <<index_calls[1].fields[2], index_calls[1].fields[1]>>

same_triple(x, y) ==
    /\ x.tablename = y.tablename
    /\ x.index_type = y.index_type
    /\ Range(x.fields) = Range(y.fields)

\* C13, as claimed: two calls that differ in the table name, the index type
\* or the set of field names get different names.
C13_DistinctTriplesDistinctNames ==
    (/\ index_calls[1].called /\ index_calls[2].called
     /\ ~same_triple(index_calls[1], index_calls[2]))
    => index_calls[1].name # index_calls[2].name

\* A name that cannot be taken for two: not empty, no space and no comma.
is_identifier(x) == x # <<>> /\ \A i \in DOMAIN x : x[i] \notin {" ", ","}

identifiers_only(c) ==
    /\ is_identifier(c.tablename)
    /\ is_identifier(c.index_type)
    /\ \A f \in Range(c.fields) : is_identifier(f)

\* C13, amended: two calls whose table names, index types and field names
\* are identifiers (not empty, without space or comma) and that differ in the
\* table name, the index type or the set of field names get different names.
C13_DistinctIdentifierTriples ==
    (/\ index_calls[1].called /\ index_calls[2].called
     /\ identifiers_only(index_calls[1]) /\ identifiers_only(index_calls[2])
     /\ ~same_triple(index_calls[1], index_calls[2]))
    => index_calls[1].name # index_calls[2].name

\* Two table names that agree on the characters kept of them: the readable
\* part of the two names is the same and the digest alone keeps them apart.
C13_Witness ==
    /\ index_calls[1].called /\ index_calls[2].called
    /\ identifiers_only(index_calls[1]) /\ identifiers_only(index_calls[2])
    /\ index_calls[1].tablename # index_calls[2].tablename
    /\ index_calls[1].index_type = index_calls[2].index_type
    /\ index_calls[1].fields = index_calls[2].fields
    /\ index_calls[1].fields # <<>>
    /\ index_calls[1].name.text = index_calls[2].name.text

\* The rows other than those of the generations in S are as they were.
OtherRowsKept(S) ==
    /\ DOMAIN data_tables \ S = DOMAIN data_tables' \ S
    /\ \A x \in DOMAIN data_tables \ S : data_tables'[x] = data_tables[x]

\* C14: deactivate(g, drop, activate_most_recent=True) on an active g ends,
\* when another inactive generation exists, with the most recently created of
\* them as the one active generation and g persisted inactive; when none
\* exists, with g inactive by the plain deactivation.
C14_DeactivateHandsOver ==
    [][(/\ lastOp'.op = "deactivate_amr"
        /\ lastOp'.g \in DOMAIN data_tables
        /\ inst[lastOp'.g]
        /\ data_tables[lastOp'.g].active)
       => LET g == lastOp'.g
              others == inactive(CurStore) \ {g}
          IN  /\ g \in DOMAIN data_tables'
              /\ ~data_tables'[g].active
              /\ IF others # {}
                 THEN active(Store(data_tables', phys')) = {Max(others)}
                 ELSE OtherRowsKept({g})]_vars

\* deactivate(g, activate_most_recent=True) has handed over: the caller's
\* instance of g was left as it was, g is persisted inactive, the active
\* generation is a newer one than another inactive generation.
C14_Witness ==
    /\ lastOp.op = "deactivate_amr"
    /\ inst[lastOp.g]
    /\ lastOp.g \in inactive(CurStore)
    /\ \E h \in ActiveNow :
          /\ ActiveNow = {h}
          /\ ~inst[h]
          /\ \E k \in inactive(CurStore) \ {lastOp.g} : k < h

\* C15: activate(G2, drop_inactive_table=False) while G1 is active leaves G1
\* inactive and G2 active, destroys no physical table and changes the flag
\* of no other generation.
C15_ActivateKeepsTables ==
    [][(lastOp'.op = "activate" /\ ~lastOp'.drop)
       => LET G2 == lastOp'.g
              G1 == get_current_active(CurStore)
          IN  /\ phys' = phys
              /\ data_tables'[G2].active
              /\ G1 \notin {None, G2} => ~data_tables'[G1].active
              /\ OtherRowsKept({G1, G2})]_vars

\* activate(G2) without drop has replaced G1: G1 is inactive with its table
\* in place, and a third generation is there, inactive.
C15_Witness ==
    /\ lastOp.op = "activate"
    /\ ~lastOp.drop
    /\ ActiveNow = {lastOp.g}
    /\ \E G1 \in inactive(CurStore) :
          /\ inst[G1]
          /\ phys[G1] = "present"
          /\ inactive(CurStore) \ {G1} # {}

C16_ActiveNeverDeletedInRace ==
    \A g \in Gens :
        /\ (g \in DOMAIN data_tables /\ data_tables[g].active)
              => phys[g] = "present"
        /\ (tx["a"].self = g /\ tx["a"].out = "committed")
              => g \in DOMAIN data_tables

\* C19: on one query set count() computes once: the first call stores what
\* it computed, with a filter always the exact count, and every later call
\* returns the stored value, 0 included, without a query and whatever rows
\* came or went since.
C19_CountComputedOnce ==
    [][count_ret'.via # "none"
       => IF qs.cached
          THEN /\ count_ret'.via = "cache"
               /\ count_ret'.ret = qs._count
               /\ qs' = qs
          ELSE /\ count_ret'.via # "cache"
               /\ qs' = [qs EXCEPT !.cached = TRUE, !._count = count_ret'.ret]
               /\ qs.where => /\ count_ret'.via = "exact"
                              /\ count_ret'.ret = table_rows.match]_vars

\* A filtered query set whose first count() found no row answers 0 from its
\* cache while rows matching the filter are in the table.
C19_Witness ==
    /\ qs.where
    /\ count_ret.via = "cache"
    /\ count_ret.ret = 0
    /\ table_rows.match > 0

\* C20: a get_model call returns a class bound to the db_table of the
\* generation asked for, the current active one when none is given; with
\* cache=True and the key registered it returns the registered class, builds
\* nothing and leaves the registry alone; otherwise (cache=False, or key not
\* registered) it builds a new class and registers it under the key, in
\* place of the one there, the other entries left alone.
C20_RegistryReuseAndRebuild ==
    [][(lastOp'.op = "get_model" /\ lastOp'.ok)
       => LET key == requested(CurStore, got'.data_table)
          IN  /\ got'.Model.db_table = key
              /\ IF got'.cache /\ key \in DOMAIN model_types
                 THEN /\ got'.Model = model_types[key]
                      /\ model_types' = model_types
                      /\ builds' = builds
                 ELSE /\ builds' = builds + 1
                      /\ \A k \in DOMAIN model_types : model_types[k] # got'.Model
                      /\ DOMAIN model_types' = DOMAIN model_types \cup {key}
                      /\ model_types'[key] = got'.Model
                      /\ \A k \in DOMAIN model_types \ {key} :
                            model_types'[k] = model_types[k]]_vars

\* get_model(cache=False) with no generation given has replaced the class of
\* the current active generation, while the class built for another
\* generation is still registered.
C20_Witness ==
    /\ lastOp.op = "get_model"
    /\ lastOp.ok
    /\ ~got.cache
    /\ got.data_table = None
    /\ got.Model.db_table = get_current_active(CurStore)
    /\ model_types[got.Model.db_table] = got.Model
    /\ \E k \in DOMAIN model_types : model_types[k].serial < got.Model.serial

\* Some field of the table has a type FIELD_TYPES has no class for.
UnknownFieldType == \E n \in DOMAIN table_fields : table_fields[n] \notin FIELD_TYPES

RegistryKept ==
    /\ model_types' = model_types
    /\ builds' = builds
    /\ registry' = registry

\* C21, as claimed: with a field of unregistered type every get_model call
\* fails and leaves the registry as it was.
C21_UnknownTypeAlwaysFails ==
    [][(lastOp'.op = "get_model" /\ UnknownFieldType)
       => ~lastOp'.ok /\ RegistryKept]_vars

\* C21, amended: with a field of unregistered type a get_model call leaves
\* the registry as it was, no entry added or replaced; it fails unless it is
\* a cache=True call whose key is registered, which returns the registered
\* class.
C21_UnknownTypeKeepsRegistry ==
    [][(lastOp'.op = "get_model" /\ UnknownFieldType)
       => LET key == requested(CurStore, got'.data_table)
              hit == got'.cache /\ key \in DOMAIN model_types
          IN  /\ RegistryKept
              /\ lastOp'.ok <=> hit
              /\ got'.Model = IF hit THEN model_types[key] ELSE NoModel]_vars

\* get_model(cache=False) has just failed on a field of unregistered type
\* for a generation whose class, built before, is still the registered one.
C21_Witness ==
    /\ lastOp.op = "get_model"
    /\ ~lastOp.ok
    /\ UnknownFieldType
    /\ ~got.cache
    /\ lastOp.g \in DOMAIN model_types
    /\ model_types[lastOp.g].serial = builds
====
